---------------------------- MODULE Spec2Model ----------------------------
(***************************************************************************)
(* A model of thurmbox/common_code.js: the sample loader                   *)
(* (getSampleDefinitionFromName, computeCenteredWave, computeIntegral,     *)
(* startLoadingSampleData and the two parsers) and the IndexedDB-backed    *)
(* replacement of localStorage (FakeLocalStorage, initializeFakeLocal-     *)
(* Storage).                                                               *)
(*                                                                         *)
(* JavaScript strings are sequences of one-character strings (longer       *)
(* literals appear as one token).  A number is a record [nan, v]; a        *)
(* Float32Array is a record [kind |-> "wave", scale, v] standing for the   *)
(* numbers v[i].v / scale, so that the division by the length made by      *)
(* computeCenteredWave is exact.  Rounding to 32-bit floats is not         *)
(* modelled.                                                               *)
(***************************************************************************)
EXTENDS Integers, Sequences, FiniteSets, TLC

----------------------------------------------------------------------------
(* Bounds *)

\* longest text body a fetch delivers, in characters
MaxTextLen == 3
\* longest channel the audio decoder delivers, in samples
MaxWaveLen == 2
\* setItem, removeItem and clear calls the hosts make, all shims together
MaxCalls == 2
\* longest text parseTextSample is called with on its own, in characters
MaxDataLen == 4
\* longest wave computeIntegral is called with on its own, in samples
MaxInputLen == 4

----------------------------------------------------------------------------
(* Numbers *)

Num(i) == [nan |-> FALSE, v |-> i]
NaN == [nan |-> TRUE, v |-> 0]
NumAdd(a, b) == IF a.nan \/ b.nan THEN NaN ELSE Num(a.v + b.v)
NumSub(a, b) == IF a.nan \/ b.nan THEN NaN ELSE Num(a.v - b.v)
NumMul(k, a) == IF a.nan THEN NaN ELSE Num(k * a.v)

RECURSIVE SeqSum(_)
SeqSum(s) == IF s = <<>> THEN Num(0) ELSE NumAdd(SeqSum(Tail(s)), Head(s))

\* new Float32Array(n): n zeros
Float32Array(n) == [kind |-> "wave", scale |-> 1, v |-> [i \in 1..n |-> Num(0)]]
\* a Float32Array holding the integers of s
WaveOf(s) == [kind |-> "wave", scale |-> 1, v |-> [i \in 1..Len(s) |-> Num(s[i])]]

\* the JavaScript value undefined, and the data a target holds before a load
Undefined == [kind |-> "undefined"]
Placeholder(t) == [kind |-> "placeholder", of |-> t]

----------------------------------------------------------------------------
(* Configuration *)

ShippedUrlPrefix == <<"https://file.garden/ZMQ0Om5nmTe-x2hq/PandoraArchive%20Samples/">>
ShippedUrlSuffix == <<".wav">>

\* each entry: the folder and the lower-case first characters its pattern
\* /^[...]/i accepts
ShippedFolderMappings ==
  << [folder |-> "0-9%20and%20A/", first |-> {"0","1","2","3","4","5","6","7","8","9","a"}],
     [folder |-> "B/",    first |-> {"b"}],
     [folder |-> "CD/",   first |-> {"c","d"}],
     [folder |-> "EF/",   first |-> {"e","f"}],
     [folder |-> "GH/",   first |-> {"g","h"}],
     [folder |-> "IJKL/", first |-> {"i","j","k","l"}],
     [folder |-> "M/",    first |-> {"m"}],
     [folder |-> "NO/",   first |-> {"n","o"}],
     [folder |-> "P/",    first |-> {"p"}],
     [folder |-> "QR/",   first |-> {"q","r"}],
     [folder |-> "S/",    first |-> {"s"}],
     [folder |-> "TUV/",  first |-> {"t","u","v"}],
     [folder |-> "WXYZ/", first |-> {"w","x","y","z"}] >>

\* the sample names the host asks for
SampleNames == { <<"B","d">>, <<"k"," ">>, <<"_">> }

\* the contents SAMPLE_URL_TABLE may be given: the shipped empty table, and
\* one explicit mapping to a text sample
SampleUrlTables ==
  { [n \in {} |-> <<>>],
    [n \in {<<"B","d">>} |-> [url |-> <<"https://example.com/file.txt">>, format |-> "txt"]] }

SampleFormats == {"wav", "txt"}

\* other contents the configuration may be given: no folders, folders whose
\* patterns overlap, the local prefix and the other suffixes the comments name
FolderMappingTables ==
  { ShippedFolderMappings,
    <<>>,
    << [folder |-> "AtoK/", first |-> {"a","b","c","d","e","f","g","h","i","j","k"}],
       [folder |-> "B/",    first |-> {"b"}],
       [folder |-> "Rest/", first |-> {"b","k","_"}] >> }
UrlPrefixes == { ShippedUrlPrefix, <<"./samples/">> }
UrlSuffixes == { ShippedUrlSuffix, <<".txt">>, <<>> }

----------------------------------------------------------------------------
(* Strings *)

UpperCase == <<"A","B","C","D","E","F","G","H","I","J","K","L","M",
               "N","O","P","Q","R","S","T","U","V","W","X","Y","Z">>
LowerCase == <<"a","b","c","d","e","f","g","h","i","j","k","l","m",
               "n","o","p","q","r","s","t","u","v","w","x","y","z">>
Digits == <<"0","1","2","3","4","5","6","7","8","9">>

Range(s) == {s[i] : i \in DOMAIN s}

\* the lower-case form of a character, as the i flag of a pattern compares it
ToLowerCase(ch) ==
  IF ch \in Range(UpperCase)
  THEN LowerCase[CHOOSE i \in DOMAIN UpperCase : UpperCase[i] = ch]
  ELSE ch

\* the characters encodeURIComponent leaves alone
Unreserved ==
  Range(UpperCase) \cup Range(LowerCase) \cup Range(Digits)
    \cup {"-", "_", ".", "!", "~", "*", "'", "(", ")"}

\* the escape of a character outside Unreserved (those the model's names use)
PercentEscape(ch) ==
  CASE ch = " " -> "%20"
    [] ch = "/" -> "%2F"
    [] ch = "%" -> "%25"
    [] ch = "#" -> "%23"
    [] ch = "?" -> "%3F"
    [] OTHER -> "%3F"

RECURSIVE encodeURIComponent(_)
encodeURIComponent(str) ==
  IF str = <<>> THEN <<>>
  ELSE << IF Head(str) \in Unreserved THEN Head(str) ELSE PercentEscape(Head(str)) >>
         \o encodeURIComponent(Tail(str))

\* name.match(nameMatcher) for a pattern /^[...]/i, given as the set of
\* lower-case characters in the brackets
Matches(name, first) == name # <<>> /\ ToLowerCase(name[1]) \in first

\* data.split("\n"): the pieces between the newlines, always at least one
RECURSIVE SplitFrom(_, _)
SplitFrom(data, line) ==
  IF data = <<>> THEN << line >>
  ELSE IF Head(data) = "\n" THEN << line >> \o SplitFrom(Tail(data), <<>>)
  ELSE SplitFrom(Tail(data), Append(line, Head(data)))

Split(data) == SplitFrom(data, <<>>)

DigitValue(ch) == (CHOOSE i \in DOMAIN Digits : Digits[i] = ch) - 1

RECURSIVE DecimalValue(_)
DecimalValue(ds) ==
  IF ds = <<>> THEN 0
  ELSE 10 * DecimalValue(SubSeq(ds, 1, Len(ds) - 1)) + DigitValue(ds[Len(ds)])

IsDigits(ds) == ds # <<>> /\ \A i \in DOMAIN ds : ds[i] \in Range(Digits)

\* +line, for a line of digits and signs: the empty string is 0, an optionally
\* signed run of digits is its value, anything else is NaN
ToNumber(line) ==
  IF line = <<>> THEN Num(0)
  ELSE IF IsDigits(line) THEN Num(DecimalValue(line))
  ELSE IF Head(line) = "-" /\ IsDigits(Tail(line)) THEN Num(0 - DecimalValue(Tail(line)))
  ELSE IF Head(line) = "+" /\ IsDigits(Tail(line)) THEN Num(DecimalValue(Tail(line)))
  ELSE NaN

----------------------------------------------------------------------------
(* Waveform functions *)

\* makeArrayOfSameType allocating one element less when no length is given
makeArrayOfSameTypeShort(a, length) ==
  Float32Array(IF length = <<>> THEN Len(a.v) - 1 ELSE length[1])

\* makeArrayOfSameType(a, length); length is <<>> when the argument is omitted.
\* Every array the loader passes is a Float32Array.
makeArrayOfSameType(a, length) ==
  Float32Array(IF length = <<>> THEN Len(a.v) ELSE length[1])

\* a.length of undefined throws a TypeError
makeArrayOfSameTypeThrows(a, length) == length = <<>> /\ a.kind = "undefined"

\* computeCenteredWave subtracting the average from every element of result
computeCenteredWaveWhole(wave, result) ==
  LET n == Len(wave.v)
      sum == SeqSum(wave.v)
  IN IF n = 0 THEN result
     ELSE [kind |-> "wave",
           scale |-> wave.scale * n,
           v |-> [i \in DOMAIN result.v |->
                    NumSub(NumMul(n, IF i <= n THEN wave.v[i] ELSE result.v[i]), sum)]]

\* computeCenteredWave(wave, result): result[i] = wave[i] - sum / wave.length
\* for the indices of wave; the rest of result is left as it was.  The result
\* is scaled by wave.length so that the quotient is exact.
computeCenteredWave(wave, result) ==
  LET n == Len(wave.v)
      sum == SeqSum(wave.v)
  IN IF n = 0 THEN result
     ELSE [kind |-> "wave",
           scale |-> wave.scale * n,
           v |-> [i \in DOMAIN result.v |->
                    IF i <= n THEN NumSub(NumMul(n, wave.v[i]), sum)
                    ELSE NumMul(wave.scale * n, result.v[i])]]

\* the loop of computeIntegral stopping one element early
RECURSIVE IntegralLoopShort(_, _, _, _)
IntegralLoopShort(wave, result, i, cumulative) ==
  IF i >= Len(wave) THEN result
  ELSE IntegralLoopShort(wave,
                         IF i \in DOMAIN result THEN [result EXCEPT ![i] = cumulative] ELSE result,
                         i + 1,
                         NumAdd(cumulative, wave[i]))

\* the loop of computeIntegral from index i on
RECURSIVE IntegralLoop(_, _, _, _)
IntegralLoop(wave, result, i, cumulative) ==
  IF i > Len(wave) THEN result
  ELSE IntegralLoop(wave,
                    IF i \in DOMAIN result THEN [result EXCEPT ![i] = cumulative] ELSE result,
                    i + 1,
                    NumAdd(cumulative, wave[i]))

\* computeIntegral storing the sum after adding wave[i]
computeIntegralInclusive(wave, result) ==
  [kind |-> "wave",
   scale |-> wave.scale,
   v |-> [i \in DOMAIN result.v |-> SeqSum(SubSeq(wave.v, 1, i))]]

\* computeIntegral(wave, result): result[i] = wave[0] + ... + wave[i-1]
computeIntegral(wave, result) ==
  [kind |-> "wave",
   scale |-> wave.scale,
   v |-> IntegralLoop(wave.v, [i \in DOMAIN result.v |-> NumMul(wave.scale, result.v[i])],
                      1, Num(0))]

\* parseTextSample(data): the value its promise resolves with
parseTextSampleLines(data) ==
  LET lines == Split(data)
  IN [kind |-> "wave", scale |-> 1, v |-> [i \in DOMAIN lines |-> ToNumber(lines[i])]]

parseTextSample(data) ==
  LET p == parseTextSampleLines(data)
  IN computeCenteredWave(p, makeArrayOfSameType(p, << Len(p.v) + 1 >>))

----------------------------------------------------------------------------
(* State *)

Calls == {1, 2}
Targets == {"t1", "t2", "t3", "t4"}
NoTarget == "null"

VARIABLES
  DEFAULT_SAMPLE_URL_PREFIX,  \* the prefix of a derived url
  DEFAULT_SAMPLE_URL_SUFFIX,  \* the suffix of a derived url
  DEFAULT_FOLDER_MAPPINGS,    \* the folders and their patterns, in table order
  SAMPLE_URL_TABLE,       \* the override table
  DEFAULT_SAMPLE_FORMAT,  \* the format of a sample without an override
  sampleName,             \* sampleName[c]: the name call c was given
  pc,                     \* pc[c]: where call c's promise chain stands
  sampleDefinition,       \* sampleDefinition[c]: the url and format call c closed over
  chipWaveRaw,            \* chipWaveRaw[c]: the raw target of call c, or NoTarget
  chipWaveIntegral,       \* chipWaveIntegral[c]: the integral target of call c, or NoTarget
  parsed,                 \* parsed[c]: the value the parse stage resolved with
  decoded,                \* decoded[c]: the numbers the parser read, before centering
  samples,                \* samples[t]: the samples field of target t
  contextCloses,          \* contextCloses[c]: close() calls on call c's AudioContext
  consoleErrors,          \* consoleErrors[c]: console.error calls made by call c's chain
  failedAt,               \* failedAt[c]: the stage whose failure call c met, or "none"
  rawWrites,              \* rawWrites[c]: assignments call c made to its raw target
  integralWrites,         \* integralWrites[c]: assignments call c made to its integral target
  sampleLoaderAudioContext,        \* sampleLoaderAudioContext[c]: "none", "running" or "closed"
  closedSampleLoaderAudioContext,  \* closedSampleLoaderAudioContext[c]: the flag of call c
  started,                \* the calls in the order they were made
  completed               \* the calls in the order their third .then callback ran

configVars == << DEFAULT_SAMPLE_URL_PREFIX, DEFAULT_SAMPLE_URL_SUFFIX,
                 DEFAULT_FOLDER_MAPPINGS, SAMPLE_URL_TABLE, DEFAULT_SAMPLE_FORMAT >>

loadVars == << configVars, sampleName, pc, sampleDefinition,
               chipWaveRaw, chipWaveIntegral, parsed, decoded, samples,
               contextCloses, consoleErrors, failedAt, rawWrites, integralWrites,
               sampleLoaderAudioContext, closedSampleLoaderAudioContext,
               started, completed >>

Shims == {1, 2}
\* the name the usage notes give, and the name of another mod
BeepboxDatabase == "beepboxFakeLocalStorage"
ThurmboxDatabase == "thurmboxFakeLocalStorage"
DatabaseNames == {BeepboxDatabase, ThurmboxDatabase}
NoName == ""

VARIABLES
  phase,            \* phase[i]: how far initializeFakeLocalStorage of page i has come
  databaseName,     \* databaseName[i]: this._databaseName
  database,         \* database[i]: whether this._database is an open connection (not null)
  inMemoryData,     \* inMemoryData[i]: this._inMemoryData, a map from strings to strings
  installed,        \* installed[i]: whether window.localStorage of page i is the shim
  objectStore,      \* objectStore[n]: the IndexedDB database named n and its object store
  transactions,     \* transactions[n]: the transactions on database n, oldest first
  cursorPosition,   \* cursorPosition[i]: entries the hydration cursor of i has passed
  storeErrors,      \* storeErrors[i]: console.error calls made by shim i
  thrown,           \* thrown[i]: whether a call of the localStorage API threw
  callsMade,        \* callsMade[i]: setItem, removeItem and clear calls made on shim i
  lastTouch,        \* lastTouch[i][k]: what the last call touching key k did
  hydrated,         \* hydrated[i]: how the hydration of i ended
  hydratedData,     \* hydratedData[i]: the mirror as hydration left it
  reloadBase        \* reloadBase[i]: the mirror i is the reload of, if any

storeVars == << phase, databaseName, database, inMemoryData, installed, objectStore,
                transactions, cursorPosition, storeErrors, thrown, callsMade,
                lastTouch, hydrated, hydratedData, reloadBase >>

VARIABLES
  fnCall,    \* the function called on its own and its arguments, if any
  fnReturn   \* what that call returned and left in its arguments

funcVars == << fnCall, fnReturn >>

vars == << loadVars, storeVars, funcVars >>

\* the text bodies of at most n characters, and the decoded channels of at
\* most n samples
TextAlphabet == {"1", "-", "\n"}
Texts(n) == UNION { [1..k -> TextAlphabet] : k \in 0..n }
SampleValues == {-1, 0, 1}
Channels(n) == UNION { [1..k -> SampleValues] : k \in 0..n }


----------------------------------------------------------------------------
(* Sample locator *)

\* the folder of the last mapping, from index i on, whose pattern matches
RECURSIVE FolderFromLast(_, _)
FolderFromLast(name, i) ==
  IF i > Len(DEFAULT_FOLDER_MAPPINGS) THEN <<>>
  ELSE LET later == FolderFromLast(name, i + 1)
       IN IF later = <<>> /\ Matches(name, DEFAULT_FOLDER_MAPPINGS[i].first)
          THEN << DEFAULT_FOLDER_MAPPINGS[i].folder >>
          ELSE later

\* the folder of the first mapping, from index i on, whose pattern matches
RECURSIVE FolderFrom(_, _)
FolderFrom(name, i) ==
  IF i > Len(DEFAULT_FOLDER_MAPPINGS) THEN <<>>
  ELSE IF Matches(name, DEFAULT_FOLDER_MAPPINGS[i].first)
       THEN << DEFAULT_FOLDER_MAPPINGS[i].folder >>
       ELSE FolderFrom(name, i + 1)

\* url and format while they are still unset (let url; let format;)
NoUrl == << "undefined" >>
NoFormat == "undefined"

\* the url of the entry with the format of a sample without an override
getSampleDefinitionFromNameDefaultFormat(name) ==
  IF name \in DOMAIN SAMPLE_URL_TABLE
  THEN [url |-> SAMPLE_URL_TABLE[name].url, format |-> DEFAULT_SAMPLE_FORMAT]
  ELSE [url |-> DEFAULT_SAMPLE_URL_PREFIX \o FolderFrom(name, 1)
                  \o encodeURIComponent(name) \o DEFAULT_SAMPLE_URL_SUFFIX,
        format |-> DEFAULT_SAMPLE_FORMAT]

\* getSampleDefinitionFromName(name): the entry of the table if there is one;
\* the derived url and the default format if url is still unset.  The entries
\* of the tables above all carry a url.
getSampleDefinitionFromName(name) ==
  LET hasEntry == name \in DOMAIN SAMPLE_URL_TABLE
      url == IF hasEntry THEN SAMPLE_URL_TABLE[name].url ELSE NoUrl
      format == IF hasEntry THEN SAMPLE_URL_TABLE[name].format ELSE NoFormat
  IN IF url = NoUrl
     THEN [url |-> DEFAULT_SAMPLE_URL_PREFIX \o FolderFrom(name, 1)
                     \o encodeURIComponent(name) \o DEFAULT_SAMPLE_URL_SUFFIX,
           format |-> DEFAULT_SAMPLE_FORMAT]
     ELSE [url |-> url, format |-> format]

----------------------------------------------------------------------------
(* Sample loader *)

\* no call has been made
LoaderIdle ==
  /\ sampleName = [c \in Calls |-> <<>>]
  /\ pc = [c \in Calls |-> "idle"]
  /\ sampleDefinition = [c \in Calls |-> [url |-> <<>>, format |-> ""]]
  /\ chipWaveRaw = [c \in Calls |-> NoTarget]
  /\ chipWaveIntegral = [c \in Calls |-> NoTarget]
  /\ parsed = [c \in Calls |-> Undefined]
  /\ decoded = [c \in Calls |-> Undefined]
  /\ samples = [t \in Targets |-> Placeholder(t)]
  /\ contextCloses = [c \in Calls |-> 0]
  /\ consoleErrors = [c \in Calls |-> 0]
  /\ failedAt = [c \in Calls |-> "none"]
  /\ rawWrites = [c \in Calls |-> 0]
  /\ integralWrites = [c \in Calls |-> 0]
  /\ sampleLoaderAudioContext = [c \in Calls |-> "none"]
  /\ closedSampleLoaderAudioContext = [c \in Calls |-> FALSE]
  /\ started = <<>>
  /\ completed = <<>>
  /\ fnCall = [fn |-> "none"]
  /\ fnReturn = [fn |-> "none"]

\* the shipped prefix, suffix and folders, with any override table and format
LoadInit ==
  /\ DEFAULT_SAMPLE_URL_PREFIX = ShippedUrlPrefix
  /\ DEFAULT_SAMPLE_URL_SUFFIX = ShippedUrlSuffix
  /\ DEFAULT_FOLDER_MAPPINGS = ShippedFolderMappings
  /\ SAMPLE_URL_TABLE \in SampleUrlTables
  /\ DEFAULT_SAMPLE_FORMAT \in SampleFormats
  /\ LoaderIdle

\* startLoadingSampleData(name, chipWaveRaw, chipWaveIntegral): resolves the
\* sample and starts the fetch
startLoadingSampleData(c, name, raw, integral) ==
  /\ pc[c] = "idle"
  /\ sampleName' = [sampleName EXCEPT ![c] = name]
  /\ sampleDefinition' = [sampleDefinition EXCEPT ![c] = getSampleDefinitionFromName(name)]
  /\ chipWaveRaw' = [chipWaveRaw EXCEPT ![c] = raw]
  /\ chipWaveIntegral' = [chipWaveIntegral EXCEPT ![c] = integral]
  /\ pc' = [pc EXCEPT ![c] = "fetching"]
  /\ started' = Append(started, c)
  /\ UNCHANGED << funcVars, storeVars, configVars, parsed, decoded, samples,
                  contextCloses, consoleErrors, failedAt, rawWrites, integralWrites,
                  sampleLoaderAudioContext, closedSampleLoaderAudioContext, completed >>

\* the promise chain of call c fails at a stage: the .catch callback is next
Reject(c, stage) ==
  /\ pc' = [pc EXCEPT ![c] = "rejected"]
  /\ failedAt' = [failedAt EXCEPT ![c] = stage]

\* fetch(url) rejects (a network error): no .then callback runs
FetchRejects(c) ==
  /\ pc[c] = "fetching"
  /\ Reject(c, "fetch")
  /\ UNCHANGED << funcVars, storeVars, configVars, sampleName,
                  closedSampleLoaderAudioContext, sampleLoaderAudioContext, started, completed,
                  sampleDefinition, chipWaveRaw,
                  chipWaveIntegral, parsed, decoded, samples, contextCloses,
                  consoleErrors, rawWrites, integralWrites >>

\* OnResponse without the test of response.ok
OnResponseUnchecked(c, ok) ==
  /\ pc[c] = "fetching"
  /\ pc' = [pc EXCEPT ![c] = "reading"]
  /\ failedAt' = [failedAt EXCEPT ![c] = IF ok THEN @ ELSE "fetch"]
  /\ UNCHANGED << funcVars, storeVars, configVars, sampleName,
                  closedSampleLoaderAudioContext, sampleLoaderAudioContext, started, completed,
                  sampleDefinition, chipWaveRaw,
                  chipWaveIntegral, parsed, decoded, samples, contextCloses,
                  consoleErrors, rawWrites, integralWrites >>

\* the first .then callback: a response that is not ok rejects, an ok one
\* starts reading the body
OnResponse(c, ok) ==
  /\ pc[c] = "fetching"
  /\ IF ~ok THEN Reject(c, "fetch")
     ELSE pc' = [pc EXCEPT ![c] = "reading"] /\ UNCHANGED failedAt
  /\ UNCHANGED << funcVars, storeVars, configVars, sampleName,
                  closedSampleLoaderAudioContext, sampleLoaderAudioContext, started, completed,
                  sampleDefinition, chipWaveRaw,
                  chipWaveIntegral, parsed, decoded, samples, contextCloses,
                  consoleErrors, rawWrites, integralWrites >>

\* response.text() or response.arrayBuffer() rejects
BodyReadFails(c) ==
  /\ pc[c] = "reading"
  /\ Reject(c, "read")
  /\ UNCHANGED << funcVars, storeVars, configVars, sampleName,
                  closedSampleLoaderAudioContext, sampleLoaderAudioContext, started, completed,
                  sampleDefinition, chipWaveRaw,
                  chipWaveIntegral, parsed, decoded, samples, contextCloses,
                  consoleErrors, rawWrites, integralWrites >>

\* the second .then callback, format "txt": parseTextSample(data) resolves at once
OnTextBody(c, data) ==
  /\ pc[c] = "reading"
  /\ sampleDefinition[c].format = "txt"
  /\ parsed' = [parsed EXCEPT ![c] = parseTextSample(data)]
  /\ decoded' = [decoded EXCEPT ![c] = parseTextSampleLines(data)]
  /\ pc' = [pc EXCEPT ![c] = "parsed"]
  /\ UNCHANGED << funcVars, storeVars, configVars, sampleName,
                  closedSampleLoaderAudioContext, sampleLoaderAudioContext, started, completed,
                  sampleDefinition, chipWaveRaw,
                  chipWaveIntegral, samples, contextCloses, consoleErrors, failedAt,
                  rawWrites, integralWrites >>

\* the second .then callback, any other format: parseSampleWithWebAudio makes
\* an AudioContext and starts decodeAudioData; the constructor may throw
OnBinaryBody(c, contextMade) ==
  /\ pc[c] = "reading"
  /\ sampleDefinition[c].format # "txt"
  /\ IF contextMade
     THEN /\ pc' = [pc EXCEPT ![c] = "decoding"]
          /\ sampleLoaderAudioContext' = [sampleLoaderAudioContext EXCEPT ![c] = "running"]
          /\ closedSampleLoaderAudioContext' = [closedSampleLoaderAudioContext EXCEPT ![c] = FALSE]
          /\ UNCHANGED failedAt
     ELSE /\ Reject(c, "context")
          /\ UNCHANGED << sampleLoaderAudioContext, closedSampleLoaderAudioContext >>
  /\ UNCHANGED << funcVars, storeVars, configVars, sampleName, started, completed, sampleDefinition, chipWaveRaw,
                  chipWaveIntegral, parsed, decoded, samples, contextCloses,
                  consoleErrors, rawWrites, integralWrites >>

\* closedSampleLoaderAudioContext = true; sampleLoaderAudioContext.close()
close(c) ==
  /\ closedSampleLoaderAudioContext' = [closedSampleLoaderAudioContext EXCEPT ![c] = TRUE]
  /\ sampleLoaderAudioContext' = [sampleLoaderAudioContext EXCEPT ![c] = "closed"]
  /\ contextCloses' = [contextCloses EXCEPT ![c] = @ + 1]

\* OnDecodeError whose .catch callback does not close the context
OnDecodeErrorNoClose(c, stage) ==
  /\ pc[c] = "decoding"
  /\ parsed' = [parsed EXCEPT ![c] = Undefined]
  /\ failedAt' = [failedAt EXCEPT ![c] = stage]
  /\ pc' = [pc EXCEPT ![c] = "parsed"]
  /\ UNCHANGED << funcVars, storeVars, configVars, sampleName, started, completed,
                  closedSampleLoaderAudioContext, sampleLoaderAudioContext, contextCloses,
                  sampleDefinition, chipWaveRaw, chipWaveIntegral, decoded, samples,
                  consoleErrors, rawWrites, integralWrites >>

\* decodeAudioData resolves: the .then callback of parseSampleWithWebAudio
\* centers the left channel, closes the context and returns the samples
OnDecoded(c, leftChannelSamples) ==
  /\ pc[c] = "decoding"
  /\ LET wave == WaveOf(leftChannelSamples)
     IN /\ parsed' = [parsed EXCEPT ![c] =
                        computeCenteredWave(wave, makeArrayOfSameType(wave, << Len(wave.v) + 1 >>))]
        /\ decoded' = [decoded EXCEPT ![c] = wave]
  /\ IF ~closedSampleLoaderAudioContext[c] THEN close(c)
     ELSE UNCHANGED << closedSampleLoaderAudioContext, sampleLoaderAudioContext, contextCloses >>
  /\ pc' = [pc EXCEPT ![c] = "parsed"]
  /\ UNCHANGED << funcVars, storeVars, configVars, sampleName, started, completed, sampleDefinition, chipWaveRaw,
                  chipWaveIntegral, samples, consoleErrors, failedAt, rawWrites,
                  integralWrites >>

\* decodeAudioData rejects, or the .then callback throws before it closes the
\* context: the .catch callback of parseSampleWithWebAudio closes the context
\* and returns nothing, so the promise resolves with undefined
OnDecodeError(c, stage) ==
  /\ pc[c] = "decoding"
  /\ parsed' = [parsed EXCEPT ![c] = Undefined]
  /\ IF ~closedSampleLoaderAudioContext[c] THEN close(c)
     ELSE UNCHANGED << closedSampleLoaderAudioContext, sampleLoaderAudioContext, contextCloses >>
  /\ failedAt' = [failedAt EXCEPT ![c] = stage]
  /\ pc' = [pc EXCEPT ![c] = "parsed"]
  /\ UNCHANGED << funcVars, storeVars, configVars, sampleName, started, completed, sampleDefinition, chipWaveRaw,
                  chipWaveIntegral, decoded, samples, consoleErrors, rawWrites,
                  integralWrites >>

\* OnParsed assigning the raw target only
OnParsedRawOnly(c) ==
  LET raw == chipWaveRaw[c]
  IN /\ pc[c] = "parsed"
     /\ rawWrites' = [rawWrites EXCEPT ![c] = IF raw # NoTarget THEN @ + 1 ELSE @]
     /\ samples' = IF raw # NoTarget THEN [samples EXCEPT ![raw] = parsed[c]] ELSE samples
     /\ pc' = [pc EXCEPT ![c] = "done"]
     /\ completed' = Append(completed, c)
     /\ UNCHANGED << funcVars, storeVars, configVars, sampleName, started,
                     closedSampleLoaderAudioContext, sampleLoaderAudioContext, sampleDefinition, chipWaveRaw,
                     chipWaveIntegral, parsed, decoded, contextCloses, consoleErrors,
                     integralWrites, failedAt >>

\* OnParsed assigning only for the call that was made last
OnParsedIfNewest(c) ==
  LET newest == c = started[Len(started)]
      raw == IF newest THEN chipWaveRaw[c] ELSE NoTarget
      integral == IF newest THEN chipWaveIntegral[c] ELSE NoTarget
      afterRaw == IF raw # NoTarget THEN [samples EXCEPT ![raw] = parsed[c]] ELSE samples
  IN /\ pc[c] = "parsed"
     /\ rawWrites' = [rawWrites EXCEPT ![c] = IF raw # NoTarget THEN @ + 1 ELSE @]
     /\ IF integral = NoTarget
        THEN /\ samples' = afterRaw
             /\ pc' = [pc EXCEPT ![c] = "done"]
             /\ UNCHANGED << integralWrites, failedAt >>
        ELSE IF makeArrayOfSameTypeThrows(parsed[c], <<>>)
        THEN /\ samples' = afterRaw
             /\ pc' = [pc EXCEPT ![c] = "rejected"]
             /\ UNCHANGED << integralWrites, failedAt >>
        ELSE /\ samples' = [afterRaw EXCEPT ![integral] =
                              computeIntegral(parsed[c], makeArrayOfSameType(parsed[c], <<>>))]
             /\ integralWrites' = [integralWrites EXCEPT ![c] = @ + 1]
             /\ pc' = [pc EXCEPT ![c] = "done"]
             /\ UNCHANGED failedAt
     /\ completed' = Append(completed, c)
     /\ UNCHANGED << funcVars, storeVars, configVars, sampleName, started,
                     closedSampleLoaderAudioContext, sampleLoaderAudioContext,
                     sampleDefinition, chipWaveRaw, chipWaveIntegral, parsed, decoded,
                     contextCloses, consoleErrors >>

\* the third .then callback: assigns the raw target, then computes and
\* assigns the integral; makeArrayOfSameType(undefined) throws
OnParsed(c) ==
  LET raw == chipWaveRaw[c]
      integral == chipWaveIntegral[c]
      afterRaw == IF raw # NoTarget THEN [samples EXCEPT ![raw] = parsed[c]] ELSE samples
  IN /\ pc[c] = "parsed"
     /\ rawWrites' = [rawWrites EXCEPT ![c] = IF raw # NoTarget THEN @ + 1 ELSE @]
     /\ IF integral = NoTarget
        THEN /\ samples' = afterRaw
             /\ pc' = [pc EXCEPT ![c] = "done"]
             /\ UNCHANGED << integralWrites, failedAt >>
        ELSE IF makeArrayOfSameTypeThrows(parsed[c], <<>>)
        THEN /\ samples' = afterRaw
             /\ pc' = [pc EXCEPT ![c] = "rejected"]
             /\ UNCHANGED << integralWrites, failedAt >>
        ELSE /\ samples' = [afterRaw EXCEPT ![integral] =
                              computeIntegral(parsed[c], makeArrayOfSameType(parsed[c], <<>>))]
             /\ integralWrites' = [integralWrites EXCEPT ![c] = @ + 1]
             /\ pc' = [pc EXCEPT ![c] = "done"]
             /\ UNCHANGED failedAt
     /\ completed' = Append(completed, c)
     /\ UNCHANGED << funcVars, storeVars, configVars, sampleName, started,
                     closedSampleLoaderAudioContext, sampleLoaderAudioContext, sampleDefinition, chipWaveRaw,
                     chipWaveIntegral, parsed, decoded, contextCloses, consoleErrors >>

\* the .catch callback: console.error(error)
OnError(c) ==
  /\ pc[c] = "rejected"
  /\ consoleErrors' = [consoleErrors EXCEPT ![c] = @ + 1]
  /\ pc' = [pc EXCEPT ![c] = "done"]
  /\ UNCHANGED << funcVars, storeVars, configVars, sampleName,
                  closedSampleLoaderAudioContext, sampleLoaderAudioContext, started, completed,
                  sampleDefinition, chipWaveRaw,
                  chipWaveIntegral, parsed, decoded, samples, contextCloses, failedAt,
                  rawWrites, integralWrites >>

\* one call, with the full range of bodies
LoadNext ==
  \/ \E name \in SampleNames, raw, integral \in Targets \cup {NoTarget} :
       startLoadingSampleData(1, name, raw, integral)
  \/ FetchRejects(1)
  \/ \E ok \in BOOLEAN : OnResponse(1, ok)
  \/ BodyReadFails(1)
  \/ \E data \in Texts(MaxTextLen) : OnTextBody(1, data)
  \/ \E contextMade \in BOOLEAN : OnBinaryBody(1, contextMade)
  \/ \E leftChannelSamples \in Channels(MaxWaveLen) : OnDecoded(1, leftChannelSamples)
  \/ \E stage \in {"decode", "postprocess"} : OnDecodeError(1, stage)
  \/ OnParsed(1)
  \/ OnError(1)

\* parseTextSample(data) called on its own: the numbers read from the lines
\* and the value the promise resolves with
parseTextSampleCall(data) ==
  /\ fnCall.fn = "none"
  /\ fnCall' = [fn |-> "parseTextSample", data |-> data]
  /\ fnReturn' = [fn |-> "parseTextSample",
                  parsed |-> parseTextSampleLines(data),
                  value |-> parseTextSample(data)]
  /\ UNCHANGED << loadVars, storeVars >>

\* computeIntegral(wave, makeArrayOfSameType(wave)) called on its own: the
\* loop assigns elements of result only, so wave is afterwards what it was
computeIntegralCall(wave) ==
  /\ fnCall.fn = "none"
  /\ fnCall' = [fn |-> "computeIntegral", wave |-> wave]
  /\ fnReturn' = [fn |-> "computeIntegral",
                  value |-> computeIntegral(wave, makeArrayOfSameType(wave, <<>>)),
                  wave |-> wave]
  /\ UNCHANGED << loadVars, storeVars >>

\* the two functions on every text and every wave within the bounds
FunctionNext ==
  \/ \E data \in Texts(MaxDataLen) : parseTextSampleCall(data)
  \/ \E channel \in Channels(MaxInputLen) : computeIntegralCall(WaveOf(channel))

\* the targets two calls in flight are given: the same pair, separate pairs,
\* or one target each
ConcurrentTargets ==
  { << "t1", "t2" >>, << "t3", "t4" >>, << "t1", NoTarget >>, << NoTarget, "t4" >> }

\* a text sample (by its override) and an audio sample
ConcurrentNames == { <<"B", "d">>, <<"_">> }

\* the calls in flight together, their callbacks in any order
ConcurrentNext ==
  \E c \in Calls :
    \/ \E name \in ConcurrentNames, targets \in ConcurrentTargets :
         startLoadingSampleData(c, name, targets[1], targets[2])
    \/ FetchRejects(c)
    \/ \E ok \in BOOLEAN : OnResponse(c, ok)
    \/ BodyReadFails(c)
    \/ \E data \in Texts(MaxWaveLen) : OnTextBody(c, data)
    \/ \E contextMade \in BOOLEAN : OnBinaryBody(c, contextMade)
    \/ \E leftChannelSamples \in Channels(MaxWaveLen) : OnDecoded(c, leftChannelSamples)
    \/ \E stage \in {"decode", "postprocess"} : OnDecodeError(c, stage)
    \/ OnParsed(c)
    \/ OnError(c)


----------------------------------------------------------------------------
(* JavaScript values and maps, for the storage shim *)

Str(s) == [type |-> "string", repr |-> s]
Number(s) == [type |-> "number", repr |-> s]
Null == [type |-> "null", repr |-> "null"]

\* value + ""
convertToString(value) == [type |-> "string", repr |-> value.repr]

EmptyMap == [k \in {} |-> Null]
MapSet(m, k, v) == [x \in DOMAIN m \cup {k} |-> IF x = k THEN v ELSE m[x]]
MapDelete(m, k) == [x \in DOMAIN m \ {k} |-> m[x]]

\* the keys and values the host passes, and the strings they are stored as
HostKeys == { Str("k"), Number("1") }
HostValues == { Str("v"), Number("1") }
ReadKeys == HostKeys \cup { Str("1") }
StoredKeys == { Str("1"), Str("k") }
\* the order in which a cursor visits the keys of the store
KeyOrder == << Str("1"), Str("k") >>

\* what a database may hold when the first shim opens it: no database yet, a
\* database of version 1 without the object store, or an object store with
\* entries written by earlier page loads
InitialEntries ==
  { EmptyMap,
    MapSet(EmptyMap, Str("k"), Str("1")),
    MapSet(MapSet(EmptyMap, Str("k"), Str("v")), Str("1"), Str("v")) }
InitialDatabases ==
  { [kind |-> "absent", data |-> EmptyMap], [kind |-> "nostore", data |-> EmptyMap] }
    \cup { [kind |-> "ok", data |-> d] : d \in InitialEntries }

onlyInMemory == FALSE
NoKey == Str("")

----------------------------------------------------------------------------
(* FakeLocalStorage *)

StoreInit ==
  /\ phase = [i \in Shims |-> "new"]
  /\ databaseName = [i \in Shims |-> NoName]
  /\ database = [i \in Shims |-> FALSE]
  /\ inMemoryData = [i \in Shims |-> EmptyMap]
  /\ installed = [i \in Shims |-> FALSE]
  /\ objectStore \in [DatabaseNames -> InitialDatabases]
  /\ transactions = [n \in DatabaseNames |-> <<>>]
  /\ cursorPosition = [i \in Shims |-> 0]
  /\ storeErrors = [i \in Shims |-> 0]
  /\ thrown = [i \in Shims |-> FALSE]
  /\ callsMade = [i \in Shims |-> 0]
  /\ lastTouch = [i \in Shims |-> [k \in StoredKeys |-> [op |-> "untouched", value |-> Null]]]
  /\ hydrated = [i \in Shims |-> "pending"]
  /\ hydratedData = [i \in Shims |-> EmptyMap]
  /\ reloadBase = [i \in Shims |-> [ok |-> FALSE, data |-> EmptyMap]]

\* _getItemInMemory(key), which is getItem(key)
getItemInMemory(i, key) ==
  LET k == convertToString(key)
  IN IF k \in DOMAIN inMemoryData[i] THEN inMemoryData[i][k] ELSE Null

getItem(i, key) == getItemInMemory(i, key)

\* _setItemInMemory keeping the value of a key that is already present
setItemInMemoryKeepFirst(m, key, value) ==
  IF convertToString(key) \in DOMAIN m THEN m
  ELSE MapSet(m, convertToString(key), convertToString(value))

\* _setItemInMemory(key, value): the new map
setItemInMemory(m, key, value) == MapSet(m, convertToString(key), convertToString(value))

\* _removeItemInMemory(key): the new map
removeItemInMemory(m, key) == MapDelete(m, convertToString(key))

\* _clearInMemory(): the new map
clearInMemory(m) == EmptyMap

\* the entries of the object store a cursor visits, in order
RECURSIVE EntriesFrom(_, _)
EntriesFrom(data, i) ==
  IF i > Len(KeyOrder) THEN <<>>
  ELSE (IF KeyOrder[i] \in DOMAIN data THEN << KeyOrder[i] >> ELSE <<>>)
         \o EntriesFrom(data, i + 1)

Entries(data) == EntriesFrom(data, 1)

\* initializeFakeLocalStorage(databaseName) on a freshly loaded page i: makes
\* the shim and, in _initialize, asks to open the database
initializeFakeLocalStorage(i, name) ==
  /\ phase[i] = "new"
  /\ databaseName' = [databaseName EXCEPT ![i] = name]
  /\ IF onlyInMemory
     THEN phase' = [phase EXCEPT ![i] = "initialized"]
          /\ hydrated' = [hydrated EXCEPT ![i] = "memoryOnly"]
     ELSE phase' = [phase EXCEPT ![i] = "opening"] /\ UNCHANGED hydrated
  /\ reloadBase' = [reloadBase EXCEPT ![i] =
       IF \E j \in Shims \ {i} :
            /\ databaseName[j] = name /\ phase[j] = "ready"
            /\ hydrated[j] = "complete" /\ storeErrors[j] = 0
            /\ transactions[name] = <<>>
       THEN [ok |-> TRUE,
             data |-> inMemoryData[CHOOSE j \in Shims \ {i} :
                                     databaseName[j] = name /\ phase[j] = "ready"]]
       ELSE [ok |-> FALSE, data |-> EmptyMap]]
  /\ UNCHANGED << funcVars, loadVars, database, inMemoryData, installed, objectStore, transactions,
                  cursorPosition, storeErrors, thrown, callsMade, lastTouch, hydratedData >>

\* every shim opening the database of the usage notes, whatever its name
OpenedDatabaseShared(i) == BeepboxDatabase

\* indexedDB.open(this._databaseName, 1): the database this._database is a
\* connection to
OpenedDatabase(i) == databaseName[i]

\* request.onerror of indexedDB.open: logs and resolves; this._database stays null
OnOpenError(i) ==
  /\ phase[i] = "opening"
  /\ storeErrors' = [storeErrors EXCEPT ![i] = @ + 1]
  /\ hydrated' = [hydrated EXCEPT ![i] = "openError"]
  /\ phase' = [phase EXCEPT ![i] = "initialized"]
  /\ UNCHANGED << funcVars, loadVars, databaseName, database, inMemoryData, installed, objectStore,
                  transactions, cursorPosition, thrown, callsMade, lastTouch,
                  hydratedData, reloadBase >>

\* request.onupgradeneeded: the database did not exist; createObjectStore
OnUpgradeNeeded(i) ==
  /\ phase[i] = "opening"
  /\ objectStore[OpenedDatabase(i)].kind = "absent"
  /\ objectStore' = [objectStore EXCEPT ![OpenedDatabase(i)] = [kind |-> "ok", data |-> EmptyMap]]
  /\ UNCHANGED << funcVars, loadVars, phase, databaseName, database, inMemoryData, installed,
                  transactions, cursorPosition, storeErrors, thrown, callsMade,
                  lastTouch, hydrated, hydratedData, reloadBase >>

\* request.onsuccess of indexedDB.open: keeps the connection and calls
\* _loadAllPreviouslyStoredData, whose executor opens a read-only transaction
\* and a cursor.  transaction() throws when the store does not exist: the
\* promise is rejected, and the .then that would resolve never runs.
OnOpenSuccess(i) ==
  LET n == OpenedDatabase(i)
  IN /\ phase[i] = "opening"
     /\ objectStore[n].kind # "absent"
     /\ database' = [database EXCEPT ![i] = TRUE]
     /\ IF objectStore[n].kind = "ok"
        THEN /\ transactions' = [transactions EXCEPT ![n] =
                  Append(@, [shim |-> i, op |-> "cursor", key |-> NoKey, value |-> NoKey])]
             /\ phase' = [phase EXCEPT ![i] = "hydrating"]
             /\ UNCHANGED hydrated
        ELSE /\ phase' = [phase EXCEPT ![i] = "stuck"]
             /\ hydrated' = [hydrated EXCEPT ![i] = "startError"]
             /\ UNCHANGED transactions
     /\ UNCHANGED << funcVars, loadVars, databaseName, inMemoryData, installed, objectStore,
                     cursorPosition, storeErrors, thrown, callsMade, lastTouch,
                     hydratedData, reloadBase >>

\* whether the oldest transaction on the database of shim i is its cursor
CursorRuns(i) ==
  /\ phase[i] = "hydrating"
  /\ transactions[OpenedDatabase(i)] # <<>>
  /\ Head(transactions[OpenedDatabase(i)]).shim = i
  /\ Head(transactions[OpenedDatabase(i)]).op = "cursor"

\* request.onsuccess of openCursor: copies the entry under the cursor and
\* continues, or resolves at the end; _initialize then resolves too
OnCursorSuccess(i) ==
  LET n == OpenedDatabase(i)
      entries == Entries(objectStore[n].data)
  IN /\ CursorRuns(i)
     /\ IF cursorPosition[i] < Len(entries)
        THEN LET key == entries[cursorPosition[i] + 1]
             IN /\ inMemoryData' = [inMemoryData EXCEPT ![i] =
                       setItemInMemory(@, key, objectStore[n].data[key])]
                /\ cursorPosition' = [cursorPosition EXCEPT ![i] = @ + 1]
                /\ UNCHANGED << transactions, phase, hydrated >>
        ELSE /\ transactions' = [transactions EXCEPT ![n] = Tail(@)]
             /\ phase' = [phase EXCEPT ![i] = "initialized"]
             /\ hydrated' = [hydrated EXCEPT ![i] = "complete"]
             /\ UNCHANGED << inMemoryData, cursorPosition >>
     /\ UNCHANGED << funcVars, loadVars, databaseName, database, installed, objectStore, storeErrors,
                     thrown, callsMade, lastTouch, hydratedData, reloadBase >>

\* request.onerror of openCursor: logs and resolves with what was copied so far
OnCursorError(i) ==
  /\ CursorRuns(i)
  /\ transactions' = [transactions EXCEPT ![OpenedDatabase(i)] = Tail(@)]
  /\ storeErrors' = [storeErrors EXCEPT ![i] = @ + 1]
  /\ phase' = [phase EXCEPT ![i] = "initialized"]
  /\ hydrated' = [hydrated EXCEPT ![i] = "readError"]
  /\ UNCHANGED << funcVars, loadVars, databaseName, database, inMemoryData, installed, objectStore,
                  cursorPosition, thrown, callsMade, lastTouch, hydratedData, reloadBase >>

\* the .then callback of initializeFakeLocalStorage: defines window.localStorage
\* and resolves the promise the host waits for
OnInitialized(i) ==
  /\ phase[i] = "initialized"
  /\ installed' = [installed EXCEPT ![i] = TRUE]
  /\ phase' = [phase EXCEPT ![i] = "ready"]
  /\ hydratedData' = [hydratedData EXCEPT ![i] = inMemoryData[i]]
  /\ UNCHANGED << funcVars, loadVars, databaseName, database, inMemoryData, objectStore,
                  transactions, cursorPosition, storeErrors, thrown, callsMade,
                  lastTouch, hydrated, reloadBase >>

\* WriteThrough without the test of this._database: transaction() of null throws
WriteThroughUnguarded(i, request) ==
  LET n == OpenedDatabase(i)
  IN IF ~database[i] \/ objectStore[n].kind # "ok"
     THEN thrown' = [thrown EXCEPT ![i] = TRUE] /\ UNCHANGED transactions
     ELSE /\ transactions' = [transactions EXCEPT ![n] = Append(@, request)]
          /\ UNCHANGED thrown

\* the head of _setItemAsync, _removeItemAsync and _clearAsync: nothing when
\* this._database is null, else a read-write transaction with one request;
\* transaction() throws when the store does not exist
WriteThrough(i, request) ==
  LET n == OpenedDatabase(i)
  IN IF ~database[i] THEN UNCHANGED << transactions, thrown >>
     ELSE IF objectStore[n].kind # "ok"
     THEN thrown' = [thrown EXCEPT ![i] = TRUE] /\ UNCHANGED transactions
     ELSE /\ transactions' = [transactions EXCEPT ![n] = Append(@, request)]
          /\ UNCHANGED thrown

\* _setItemAsync with the arguments of store.put exchanged
setItemAsyncSwapped(i, key, value) ==
  WriteThrough(i, [shim |-> i, op |-> "put",
                   key |-> convertToString(value), value |-> convertToString(key)])

setItemAsync(i, key, value) ==
  WriteThrough(i, [shim |-> i, op |-> "put",
                   key |-> convertToString(key), value |-> convertToString(value)])

removeItemAsync(i, key) ==
  WriteThrough(i, [shim |-> i, op |-> "delete", key |-> convertToString(key), value |-> NoKey])

clearAsync(i) ==
  WriteThrough(i, [shim |-> i, op |-> "clear", key |-> NoKey, value |-> NoKey])

\* a call on shim i is one more call, and a shim that is still reading the
\* same database is no longer the reload of a settled mirror
HostCalls(i) ==
  /\ installed[i]
  /\ callsMade[1] + callsMade[2] < MaxCalls
  /\ callsMade' = [callsMade EXCEPT ![i] = @ + 1]
  /\ reloadBase' = [j \in Shims |->
       IF j # i /\ databaseName[j] = databaseName[i] /\ phase[j] \in {"opening", "hydrating"}
       THEN [ok |-> FALSE, data |-> EmptyMap]
       ELSE reloadBase[j]]

\* localStorage.setItem(key, value)
setItem(i, key, value) ==
  /\ HostCalls(i)
  /\ inMemoryData' = [inMemoryData EXCEPT ![i] = setItemInMemory(@, key, value)]
  /\ setItemAsync(i, key, value)
  /\ lastTouch' = [lastTouch EXCEPT ![i][Str(key.repr)] = [op |-> "set", value |-> Str(value.repr)]]
  /\ UNCHANGED << funcVars, loadVars, phase, databaseName, database, installed, objectStore,
                  cursorPosition, storeErrors, hydrated, hydratedData >>

\* localStorage.removeItem(key)
removeItem(i, key) ==
  /\ HostCalls(i)
  /\ inMemoryData' = [inMemoryData EXCEPT ![i] = removeItemInMemory(@, key)]
  /\ removeItemAsync(i, key)
  /\ lastTouch' = [lastTouch EXCEPT ![i][Str(key.repr)] = [op |-> "removed", value |-> Null]]
  /\ UNCHANGED << funcVars, loadVars, phase, databaseName, database, installed, objectStore,
                  cursorPosition, storeErrors, hydrated, hydratedData >>

\* localStorage.clear()
clear(i) ==
  /\ HostCalls(i)
  /\ inMemoryData' = [inMemoryData EXCEPT ![i] = clearInMemory(@)]
  /\ clearAsync(i)
  /\ lastTouch' = [lastTouch EXCEPT ![i] = [k \in StoredKeys |-> [op |-> "removed", value |-> Null]]]
  /\ UNCHANGED << funcVars, loadVars, phase, databaseName, database, installed, objectStore,
                  cursorPosition, storeErrors, hydrated, hydratedData >>

\* whether the oldest transaction on database n is a write-through
WriteRuns(n) == transactions[n] # <<>> /\ Head(transactions[n]).op # "cursor"

\* the object store after a request
Applied(data, request) ==
  CASE request.op = "put" -> MapSet(data, request.key, request.value)
    [] request.op = "delete" -> MapDelete(data, request.key)
    [] request.op = "clear" -> EmptyMap

\* request.onsuccess of put, delete or clear: the store has changed; resolves
OnWriteSuccess(n) ==
  /\ WriteRuns(n)
  /\ objectStore' = [objectStore EXCEPT ![n].data = Applied(@, Head(transactions[n]))]
  /\ transactions' = [transactions EXCEPT ![n] = Tail(@)]
  /\ UNCHANGED << funcVars, loadVars, phase, databaseName, database, inMemoryData, installed,
                  cursorPosition, storeErrors, thrown, callsMade, lastTouch, hydrated,
                  hydratedData, reloadBase >>

\* OnWriteError undoing the change of the mirror
OnWriteErrorRollback(n) ==
  /\ WriteRuns(n)
  /\ storeErrors' = [storeErrors EXCEPT ![Head(transactions[n]).shim] = @ + 1]
  /\ transactions' = [transactions EXCEPT ![n] = Tail(@)]
  /\ inMemoryData' = [inMemoryData EXCEPT ![Head(transactions[n]).shim] =
                        MapDelete(@, Head(transactions[n]).key)]
  /\ UNCHANGED << funcVars, loadVars, phase, databaseName, database, installed,
                  objectStore, cursorPosition, thrown, callsMade, lastTouch, hydrated,
                  hydratedData, reloadBase >>

\* request.onerror of put, delete or clear: the store is as it was; logs and
\* resolves
OnWriteError(n) ==
  /\ WriteRuns(n)
  /\ storeErrors' = [storeErrors EXCEPT ![Head(transactions[n]).shim] = @ + 1]
  /\ transactions' = [transactions EXCEPT ![n] = Tail(@)]
  /\ UNCHANGED << funcVars, loadVars, phase, databaseName, database, inMemoryData, installed,
                  objectStore, cursorPosition, thrown, callsMade, lastTouch, hydrated,
                  hydratedData, reloadBase >>

\* the pages of one mod: every shim is given the same database name
StoreNext ==
  \/ \E i \in Shims : initializeFakeLocalStorage(i, BeepboxDatabase)
  \/ \E i \in Shims : OnOpenError(i)
  \/ \E i \in Shims : OnUpgradeNeeded(i)
  \/ \E i \in Shims : OnOpenSuccess(i)
  \/ \E i \in Shims : OnCursorSuccess(i)
  \/ \E i \in Shims : OnCursorError(i)
  \/ \E i \in Shims : OnInitialized(i)
  \/ \E i \in Shims, key \in HostKeys, value \in HostValues : setItem(i, key, value)
  \/ \E i \in Shims, key \in HostKeys : removeItem(i, key)
  \/ \E i \in Shims : clear(i)
  \/ \E n \in DatabaseNames : OnWriteSuccess(n)
  \/ \E n \in DatabaseNames : OnWriteError(n)

\* the name each page passes: the pages of two mods on one origin
NamespaceOf(i) == IF i = 1 THEN BeepboxDatabase ELSE ThurmboxDatabase

\* the pages of two mods: the shims are given different database names
NamespaceNext ==
  \/ \E i \in Shims : initializeFakeLocalStorage(i, NamespaceOf(i))
  \/ \E i \in Shims : OnOpenError(i)
  \/ \E i \in Shims : OnUpgradeNeeded(i)
  \/ \E i \in Shims : OnOpenSuccess(i)
  \/ \E i \in Shims : OnCursorSuccess(i)
  \/ \E i \in Shims : OnCursorError(i)
  \/ \E i \in Shims : OnInitialized(i)
  \/ \E i \in Shims, key \in HostKeys, value \in HostValues : setItem(i, key, value)
  \/ \E i \in Shims, key \in HostKeys : removeItem(i, key)
  \/ \E i \in Shims : clear(i)
  \/ \E n \in DatabaseNames : OnWriteSuccess(n)
  \/ \E n \in DatabaseNames : OnWriteError(n)

----------------------------------------------------------------------------
(* Specifications *)

NoDatabase == [kind |-> "absent", data |-> EmptyMap]

\* the sample loader alone: no page has a shim
LoadSpecInit ==
  /\ LoadInit
  /\ StoreInit
  /\ objectStore = [n \in DatabaseNames |-> NoDatabase]

LoadSpec == LoadSpecInit /\ [][LoadNext]_vars

\* the storage shim alone, for the pages of one mod: the shipped
\* configuration, no load started, no database of another mod
StoreSpecInit ==
  /\ StoreInit
  /\ \A n \in DatabaseNames \ {BeepboxDatabase} : objectStore[n] = NoDatabase
  /\ LoadInit
  /\ SAMPLE_URL_TABLE = [n \in {} |-> <<>>]
  /\ DEFAULT_SAMPLE_FORMAT = "wav"

StoreSpec == StoreSpecInit /\ [][StoreNext]_vars

\* the storage shim for the pages of two mods: the shipped configuration, no
\* load started; the database of the other mod is absent or holds one entry
NamespaceSpecInit ==
  /\ StoreInit
  /\ objectStore[ThurmboxDatabase] \in
       { NoDatabase, [kind |-> "ok", data |-> MapSet(EmptyMap, Str("k"), Str("1"))] }
  /\ LoadInit
  /\ SAMPLE_URL_TABLE = [n \in {} |-> <<>>]
  /\ DEFAULT_SAMPLE_FORMAT = "wav"

NamespaceSpec == NamespaceSpecInit /\ [][NamespaceNext]_vars

\* parseTextSample and computeIntegral on their own
FunctionSpecInit ==
  /\ LoadInit
  /\ SAMPLE_URL_TABLE = [n \in {} |-> <<>>]
  /\ DEFAULT_SAMPLE_FORMAT = "wav"
  /\ StoreInit
  /\ objectStore = [n \in DatabaseNames |-> NoDatabase]

FunctionSpec == FunctionSpecInit /\ [][FunctionNext]_vars

\* the sample loader with calls in flight together: the shipped configuration
\* with one override, a text sample
ConcurrentSpecInit ==
  /\ LoadInit
  /\ SAMPLE_URL_TABLE # [n \in {} |-> <<>>]
  /\ DEFAULT_SAMPLE_FORMAT = "wav"
  /\ StoreInit
  /\ objectStore = [n \in DatabaseNames |-> NoDatabase]

ConcurrentSpec == ConcurrentSpecInit /\ [][ConcurrentNext]_vars

\* the sample locator under every configuration: calls are started and their
\* sample definitions looked up, nothing is fetched
LocatorSpecInit ==
  /\ DEFAULT_SAMPLE_URL_PREFIX \in UrlPrefixes
  /\ DEFAULT_SAMPLE_URL_SUFFIX \in UrlSuffixes
  /\ DEFAULT_FOLDER_MAPPINGS \in FolderMappingTables
  /\ SAMPLE_URL_TABLE \in SampleUrlTables
  /\ DEFAULT_SAMPLE_FORMAT \in SampleFormats
  /\ LoaderIdle
  /\ StoreInit
  /\ objectStore = [n \in DatabaseNames |-> NoDatabase]

LocatorNext ==
  \E c \in Calls, name \in SampleNames, raw, integral \in {"t1", NoTarget} :
    startLoadingSampleData(c, name, raw, integral)

LocatorSpec == LocatorSpecInit /\ [][LocatorNext]_vars

----------------------------------------------------------------------------
(* Properties of the sample loader, checked under LoadSpec *)

Untouched == \A t \in Targets : samples[t] = Placeholder(t)
Succeeded(c) == failedAt[c] = "none" /\ pc[c] \in {"parsed", "done"}
RawSupplied(c) == chipWaveRaw[c] # NoTarget
IntegralSupplied(c) == chipWaveIntegral[c] # NoTarget

\* C1: a call whose fetch failed (rejected, or answered with a status that
\* is not ok) never assigns a target, so every target keeps its value from
\* before the call, and its chain logs exactly one error: none before the
\* .catch callback has run, one from then on.
C1_FetchFailureLeavesTargets ==
  \A c \in Calls :
    failedAt[c] = "fetch" =>
      /\ rawWrites[c] = 0 /\ integralWrites[c] = 0
      /\ Untouched
      /\ pc[c] \in {"rejected", "done"}
      /\ consoleErrors[c] = IF pc[c] = "done" THEN 1 ELSE 0

C1_Witness ==
  /\ failedAt[1] = "fetch" /\ pc[1] = "done"
  /\ RawSupplied(1) /\ IntegralSupplied(1)

\* C2: a call of the generic format whose decoding failed assigns neither
\* target (both keep their placeholder) and has logged the failure once it
\* is done, whichever targets were supplied.
C2_DecodeFailureLeavesTargets ==
  \A c \in Calls :
    failedAt[c] = "decode" =>
      /\ rawWrites[c] = 0 /\ integralWrites[c] = 0
      /\ Untouched
      /\ pc[c] = "done" => consoleErrors[c] >= 1

\* C3: a call whose fetch, read and parse succeeded assigns each supplied
\* target exactly once, in the step that ends it, and no state has one of
\* two distinct supplied targets assigned and the other still a placeholder.
C3_WritesOnceTogether ==
  \A c \in Calls :
    Succeeded(c) =>
      LET n == IF pc[c] = "done" THEN 1 ELSE 0
          raw == chipWaveRaw[c]
          integral == chipWaveIntegral[c]
      IN /\ rawWrites[c] = IF RawSupplied(c) THEN n ELSE 0
         /\ integralWrites[c] = IF IntegralSupplied(c) THEN n ELSE 0
         /\ consoleErrors[c] = 0
         /\ (RawSupplied(c) /\ IntegralSupplied(c) /\ raw # integral) =>
              (samples[raw] = Placeholder(raw) <=> samples[integral] = Placeholder(integral))

C3_Witness ==
  /\ Succeeded(1) /\ pc[1] = "done"
  /\ RawSupplied(1) /\ IntegralSupplied(1) /\ chipWaveRaw[1] # chipWaveIntegral[1]
  /\ samples[chipWaveRaw[1]].kind = "wave" /\ samples[chipWaveIntegral[1]].kind = "wave"

\* the sum of the first k numbers of s
PrefixSum(s, k) == SeqSum(SubSeq(s, 1, k))

\* C4 as claimed: the integral a successful load stored is, at every index
\* of the decoded numbers, the sum of the decoded (not centered) numbers
\* before that index.
C4_IntegralOfDecoded ==
  \A c \in Calls :
    (Succeeded(c) /\ pc[c] = "done" /\ IntegralSupplied(c)) =>
      LET stored == samples[chipWaveIntegral[c]]
      IN \A i \in DOMAIN decoded[c].v :
           stored.v[i] = NumMul(stored.scale, PrefixSum(decoded[c].v, i - 1))

\* C4 as amended: the integral a successful load stored is the exclusive
\* prefix sum of the centered wave the parser returned (the one assigned to
\* the raw target), trailing slot included: it starts at 0 and each element
\* adds the centered sample before it.
C4_IntegralOfCentered ==
  \A c \in Calls :
    (Succeeded(c) /\ pc[c] = "done" /\ IntegralSupplied(c)) =>
      LET stored == samples[chipWaveIntegral[c]]
      IN /\ stored.kind = "wave"
         /\ stored.scale = parsed[c].scale
         /\ DOMAIN stored.v = DOMAIN parsed[c].v
         /\ \A i \in DOMAIN stored.v :
              stored.v[i] = IF i = 1 THEN Num(0)
                            ELSE NumAdd(stored.v[i - 1], parsed[c].v[i - 1])

\* a decoded wave of two samples with a mean other than zero was integrated
C4_Witness ==
  /\ Succeeded(1) /\ pc[1] = "done" /\ IntegralSupplied(1)
  /\ Len(decoded[1].v) = 2
  /\ SeqSum(decoded[1].v) \notin {Num(0), NaN}

\* C5: once a load has assigned both targets, the two stored waves have the
\* same length, the empty decoded wave included.
C5_SameLength ==
  \A c \in Calls :
    (rawWrites[c] = 1 /\ integralWrites[c] = 1 /\ chipWaveRaw[c] # chipWaveIntegral[c]) =>
      /\ samples[chipWaveRaw[c]].kind = "wave"
      /\ samples[chipWaveIntegral[c]].kind = "wave"
      /\ Len(samples[chipWaveRaw[c]].v) = Len(samples[chipWaveIntegral[c]].v)

C5_Witness ==
  /\ rawWrites[1] = 1 /\ integralWrites[1] = 1 /\ chipWaveRaw[1] # chipWaveIntegral[1]
  /\ Len(decoded[1].v) = 0
  /\ Len(samples[chipWaveRaw[1]].v) = 1


----------------------------------------------------------------------------
(* Properties of the storage shim, checked under StoreSpec *)

\* what localStorage answers for the stored key k after the calls made so far:
\* the value of the last setItem if no removeItem or clear followed it, the
\* hydrated value if no call touched the key, else null
Expected(i, k) ==
  CASE lastTouch[i][k].op = "set" -> lastTouch[i][k].value
    [] lastTouch[i][k].op = "removed" -> Null
    [] OTHER -> IF k \in DOMAIN hydratedData[i] THEN hydratedData[i][k] ELSE Null

ReadsAsExpected(i) ==
  \A key \in ReadKeys : getItem(i, key) = Expected(i, Str(key.repr))

\* the write-throughs of shim i that have not run yet
Pending(i) ==
  { x \in DOMAIN transactions[databaseName[i]] :
      transactions[databaseName[i]][x].shim = i
        /\ transactions[databaseName[i]][x].op # "cursor" }

\* C6: on an installed shim, whatever write-throughs are pending or have
\* failed, getItem(k) is the string form of the value of the last setItem for
\* k not followed by removeItem(k) or clear(), else the hydrated value if k was
\* never touched, else null.
C6_ReadsFollowCalls ==
  \A i \in Shims : installed[i] => ReadsAsExpected(i)

\* setItem("k", "v") was the last call, its put has not run, the store does
\* not hold "k", and getItem("k") is "v"
C6_Witness ==
  /\ installed[1] /\ database[1]
  /\ lastTouch[1][Str("k")] = [op |-> "set", value |-> Str("v")]
  /\ Pending(1) # {}
  /\ Str("k") \notin DOMAIN objectStore[databaseName[1]].data
  /\ getItem(1, Str("k")) = Str("v")
  /\ getItem(1, Number("1")) = Null

\* C7: after a failed open the initialization has resolved or its resolution
\* is the next callback, this._database is null, and every call works on the
\* mirror alone: none throws, none makes a transaction, reads follow the calls.
C7_OpenFailureFallsBack ==
  \A i \in Shims :
    hydrated[i] = "openError" =>
      /\ phase[i] \in {"initialized", "ready"}
      /\ ~database[i]
      /\ ~thrown[i]
      /\ \A x \in DOMAIN transactions[databaseName[i]] :
           transactions[databaseName[i]][x].shim # i
      /\ installed[i] => ReadsAsExpected(i)

C7_Witness ==
  /\ hydrated[1] = "openError" /\ installed[1]
  /\ callsMade[1] = MaxCalls
  /\ lastTouch[1][Str("1")].op = "removed"
  /\ getItem(1, Str("k")) = Str("v")

\* C8: a shim initialized on the database of a completely hydrated shim all of
\* whose write-throughs have succeeded, and which is not called while the new
\* one reads, hydrates the mirror that shim had; and when such a shim is the
\* only writer its settled mirror is the object store.
C8_ReloadRoundTrip ==
  \A j \in Shims :
    /\ (reloadBase[j].ok /\ hydrated[j] = "complete") =>
         /\ phase[j] = "initialized" => inMemoryData[j] = reloadBase[j].data
         /\ phase[j] = "ready" => hydratedData[j] = reloadBase[j].data
    /\ \A i \in Shims \ {j} :
         ( /\ phase[i] = "ready" /\ hydrated[i] = "complete" /\ storeErrors[i] = 0
           /\ databaseName[j] \in {NoName, databaseName[i]} /\ callsMade[j] = 0
           /\ transactions[databaseName[i]] = <<>> ) =>
           objectStore[databaseName[i]].data = inMemoryData[i]

\* the second shim was hydrated from what the first one wrote in two calls
C8_Witness ==
  /\ reloadBase[2].ok /\ hydrated[2] = "complete" /\ phase[2] = "ready"
  /\ callsMade[1] = MaxCalls
  /\ hydratedData[2] # hydratedData[1]
  /\ hydratedData[2] # EmptyMap

\* C9: once the open request and the hydration read have reported, with
\* success or an error, a failure to start the read included, the promise of
\* initializeFakeLocalStorage is resolved or its resolution is the next
\* callback; and the shim is installed only after hydration ended or the
\* open failed.
C9_InitializationResolves ==
  \A i \in Shims :
    /\ hydrated[i] # "pending" => phase[i] \in {"initialized", "ready"}
    /\ installed[i] => hydrated[i] \in {"complete", "readError", "openError", "memoryOnly"}

\* C10: the step of a failed put, delete or clear changes no mirror, throws
\* nothing to a caller, starts no transaction and leaves the store as it was;
\* and reads follow the calls whatever has failed.
C10_WriteFailureAbsorbed ==
  /\ [](\A i \in Shims : (installed[i] /\ storeErrors[i] > 0) => ReadsAsExpected(i))
  /\ [][ \A n \in DatabaseNames :
           (WriteRuns(n) /\ transactions'[n] = Tail(transactions[n])
              /\ storeErrors' # storeErrors) =>
             /\ inMemoryData' = inMemoryData
             /\ thrown' = thrown
             /\ objectStore' = objectStore
             /\ \A m \in DatabaseNames : Len(transactions'[m]) <= Len(transactions[m]) ]_vars

\* the put of setItem("k", "v") failed: the store lacks "k", the mirror has it
C10_Witness ==
  /\ installed[1] /\ hydrated[1] = "complete" /\ storeErrors[1] = 1
  /\ callsMade[1] = 1 /\ callsMade[2] = 0
  /\ transactions[databaseName[1]] = <<>>
  /\ Str("k") \notin DOMAIN objectStore[databaseName[1]].data
  /\ getItem(1, Str("k")) = Str("v")

----------------------------------------------------------------------------
(* Properties of the audio parser and of the stored raw wave (LoadSpec) *)

\* parseSampleWithWebAudio of call c has made its AudioContext
ContextMade(c) == sampleLoaderAudioContext[c] # "none"

\* the promise parseSampleWithWebAudio of call c returned has settled
ParserSettled(c) == ContextMade(c) /\ pc[c] # "decoding"

\* C15: the AudioContext of a call is never closed twice; it is not closed
\* while decodeAudioData is pending; and once the parser's promise has
\* settled (the decode succeeded, the decode failed, or the processing of the
\* decoded buffer threw) it has been closed exactly once.
C15_ContextClosedOnce ==
  \A c \in Calls :
    /\ contextCloses[c] <= 1
    /\ ~ContextMade(c) => contextCloses[c] = 0
    /\ (ContextMade(c) /\ pc[c] = "decoding") =>
         (contextCloses[c] = 0 /\ sampleLoaderAudioContext[c] = "running")
    /\ ParserSettled(c) =>
         (contextCloses[c] = 1 /\ sampleLoaderAudioContext[c] = "closed")

\* the processing of a decoded buffer threw and the whole chain has ended:
\* the context was closed once, by the .catch callback
C15_Witness ==
  /\ ParserSettled(1) /\ failedAt[1] = "postprocess" /\ pc[1] = "done"
  /\ contextCloses[1] = 1 /\ closedSampleLoaderAudioContext[1]

\* C16: the parse stage resolves only with a waveform: a call whose decode
\* failed is rejected, it never stands at the third .then callback.
C16_DecodeFailureRejects ==
  \A c \in Calls :
    /\ failedAt[c] = "decode" => pc[c] \in {"rejected", "done"}
    /\ pc[c] = "parsed" => parsed[c].kind = "wave"

\* C18: the raw wave a successful load stored has one element more than the
\* parser decoded, and its last element is zero, for text and for audio.
C18_RawLengthAndTrailingZero ==
  \A c \in Calls :
    (Succeeded(c) /\ pc[c] = "done" /\ RawSupplied(c)
       /\ chipWaveRaw[c] # chipWaveIntegral[c]) =>
      LET stored == samples[chipWaveRaw[c]]
      IN /\ stored.kind = "wave"
         /\ Len(stored.v) = Len(decoded[c].v) + 1
         /\ stored.v[Len(stored.v)] = Num(0)

\* two decoded values with a sum other than zero have been centered and
\* stored with the added element
C18_Witness ==
  /\ Succeeded(1) /\ pc[1] = "done" /\ RawSupplied(1)
  /\ chipWaveRaw[1] # chipWaveIntegral[1]
  /\ Len(decoded[1].v) = 2
  /\ SeqSum(decoded[1].v) \notin {Num(0), NaN}
  /\ Len(samples[chipWaveRaw[1]].v) = 3

----------------------------------------------------------------------------
(* Properties of calls in flight together (ConcurrentSpec) *)

\* the targets call c was given
TargetsOf(c) == {chipWaveRaw[c], chipWaveIntegral[c]} \ {NoTarget}

\* the calls made so far were given pairwise disjoint targets
DisjointTargets ==
  \A c, d \in Calls : c # d => TargetsOf(c) \cap TargetsOf(d) = {}

\* the targets of call c hold the result of call c
HoldsOwnResult(c) ==
  /\ RawSupplied(c) => samples[chipWaveRaw[c]] = parsed[c]
  /\ IntegralSupplied(c) =>
       samples[chipWaveIntegral[c]] = computeIntegral(parsed[c], makeArrayOfSameType(parsed[c], <<>>))

\* the targets of call c hold what they held before the call
HoldsPlaceholder(c) == \A t \in TargetsOf(c) : samples[t] = Placeholder(t)

\* C13: with pairwise disjoint targets, whatever the order of the callbacks,
\* a call that has ended left its own result in its targets if it succeeded
\* and their placeholders if it failed.
C13_DisjointCallsIndependent ==
  \A c \in Calls :
    (Len(started) = 2 /\ DisjointTargets /\ pc[c] = "done") =>
      IF failedAt[c] = "none" THEN HoldsOwnResult(c) ELSE HoldsPlaceholder(c)

\* the same, for the calls whose failure is not that of C2
C13_ApartFromDecodeFailure ==
  \A c \in Calls :
    (DisjointTargets /\ pc[c] = "done" /\ failedAt[c] \notin {"decode", "postprocess"}) =>
      IF failedAt[c] = "none" THEN HoldsOwnResult(c) ELSE HoldsPlaceholder(c)

\* a callback of one call changes nothing the other call holds or waits on
C13_StepsKeepOthers ==
  [][ \A c, d \in Calls :
        (c # d /\ pc'[c] # pc[c]) =>
          /\ pc'[d] = pc[d] /\ parsed'[d] = parsed[d] /\ failedAt'[d] = failedAt[d]
          /\ \A t \in Targets \ TargetsOf(c) : samples'[t] = samples[t] ]_vars

\* both calls ran their third .then callback
BothCompleted == Len(completed) = 2

\* C20: two successful calls given the same targets: the targets hold the
\* result of the call whose third .then callback ran last, whichever call
\* was made last.
C20_LastCompletionWins ==
  \A c, d \in Calls :
    (c # d /\ BothCompleted /\ completed[2] = c
       /\ failedAt[c] = "none" /\ failedAt[d] = "none"
       /\ pc[c] = "done" /\ pc[d] = "done"
       /\ chipWaveRaw[c] = chipWaveRaw[d] /\ chipWaveIntegral[c] = chipWaveIntegral[d]) =>
      HoldsOwnResult(c)

\* call 2 was made last, call 1 completed last with another wave, and the
\* shared targets hold the result of call 1
C20_Witness ==
  /\ started = << 1, 2 >> /\ completed = << 2, 1 >>
  /\ pc[1] = "done" /\ pc[2] = "done"
  /\ failedAt[1] = "none" /\ failedAt[2] = "none"
  /\ chipWaveRaw[1] = "t1" /\ chipWaveRaw[2] = "t1"
  /\ chipWaveIntegral[1] = "t2" /\ chipWaveIntegral[2] = "t2"
  /\ parsed[1] # parsed[2]
  /\ samples["t1"] = parsed[1] /\ samples["t1"] # parsed[2]
  /\ samples["t2"] # computeIntegral(parsed[2], makeArrayOfSameType(parsed[2], <<>>))

----------------------------------------------------------------------------
(* Properties of shims with different database names (NamespaceSpec) *)

\* shims i and j have been given different database names
Apart(i, j) == i # j /\ databaseName[i] # NoName /\ databaseName[j] # NoName
                 /\ databaseName[i] # databaseName[j]

\* C14: shims given different database names never collide.  Every
\* transaction on a database is one of a shim given that name; a setItem,
\* removeItem or clear on one shim changes neither the mirror of the other
\* nor the other's database or its queue; a database changes only by an
\* upgrade or a write of a shim given its name; getItem on a shim follows that
\* shim's own calls; and a shim that made no call hydrates exactly the
\* content of the database of its own name.
C14_NamespacesApart ==
  /\ [](\A n \in DatabaseNames : \A x \in DOMAIN transactions[n] :
          databaseName[transactions[n][x].shim] = n)
  /\ [](\A i, j \in Shims :
          (Apart(i, j) /\ installed[j]) =>
            /\ ReadsAsExpected(j)
            /\ (hydrated[j] = "complete" /\ callsMade[j] = 0) =>
                 inMemoryData[j] = objectStore[databaseName[j]].data)
  /\ [][ \A i, j \in Shims :
           (Apart(i, j) /\ callsMade'[i] # callsMade[i]) =>
             /\ inMemoryData'[j] = inMemoryData[j]
             /\ objectStore'[databaseName[j]] = objectStore[databaseName[j]]
             /\ transactions'[databaseName[j]] = transactions[databaseName[j]] ]_vars
  /\ [][ \A n \in DatabaseNames :
           objectStore'[n] # objectStore[n] =>
             \E i \in Shims :
               /\ databaseName[i] = n
               /\ \/ phase[i] = "opening" /\ objectStore[n].kind = "absent"
                  \/ WriteRuns(n) /\ Head(transactions[n]).shim = i ]_vars

\* shim 1 stored "k" in its database; shim 2, with the other name, made no
\* call, has hydrated its own database, which holds another "k", and reads it
C14_Witness ==
  /\ Apart(1, 2) /\ installed[1] /\ installed[2]
  /\ callsMade[1] > 0 /\ callsMade[2] = 0 /\ hydrated[2] = "complete"
  /\ objectStore[databaseName[1]].data = MapSet(EmptyMap, Str("k"), Str("v"))
  /\ objectStore[databaseName[2]].data = MapSet(EmptyMap, Str("k"), Str("1"))
  /\ getItem(2, Str("k")) = Str("1")
  /\ getItem(1, Str("k")) = Str("v")

----------------------------------------------------------------------------
(* Properties of the functions on their own (FunctionSpec) *)

\* the lines of a text whose every line ends with a newline
LinesOf(data) == SubSeq(Split(data), 1, Len(Split(data)) - 1)

\* data is one or more numeric lines, each ended by a newline
NumericLines(data) ==
  /\ data # <<>> /\ data[Len(data)] = "\n"
  /\ \A i \in DOMAIN LinesOf(data) :
       LinesOf(data)[i] # <<>> /\ ~ToNumber(LinesOf(data)[i]).nan

\* C17: for a text of n numeric lines, each ended by a newline, the parser
\* reads exactly n values, and returns them mean-centered followed by one
\* more element, which is zero: n + 1 elements.
C17_TextLinesParsed ==
  (fnCall.fn = "parseTextSample" /\ NumericLines(fnCall.data)) =>
    LET lines == LinesOf(fnCall.data)
        n == Len(lines)
        numbers == [i \in 1..n |-> ToNumber(lines[i])]
        value == fnReturn.value
    IN /\ Len(fnReturn.parsed.v) = n
       /\ Len(value.v) = n + 1
       /\ value.scale = n
       /\ \A i \in 1..n : value.v[i] = NumSub(NumMul(n, numbers[i]), SeqSum(numbers))
       /\ value.v[n + 1] = Num(0)

\* C19: computeIntegral returns the exclusive prefix sum of its input: as
\* long as the input, starting with 0, each later element the one before it
\* plus the input's element before it; and the input is as it was.
C19_ExclusivePrefixSum ==
  fnCall.fn = "computeIntegral" =>
    LET wave == fnCall.wave.v
        result == fnReturn.value.v
    IN /\ fnReturn.value.kind = "wave"
       /\ fnReturn.value.scale = fnCall.wave.scale
       /\ Len(result) = Len(wave)
       /\ \A i \in DOMAIN result :
            result[i] = IF i = 1 THEN Num(0) ELSE NumAdd(result[i - 1], wave[i - 1])
       /\ fnReturn.wave = fnCall.wave

\* the wave 1, 1, -1, 1 was integrated to 0, 1, 2, 1
C19_Witness ==
  /\ fnCall.fn = "computeIntegral"
  /\ fnCall.wave = WaveOf(<< 1, 1, -1, 1 >>)
  /\ fnReturn.value = WaveOf(<< 0, 1, 2, 1 >>)
  /\ fnReturn.wave = WaveOf(<< 1, 1, -1, 1 >>)

----------------------------------------------------------------------------
(* Properties of the sample locator (LocatorSpec) *)

\* the call has looked its sample definition up
Located(c) == pc[c] # "idle"

\* C11: a name with an entry in the override table gets exactly the url and
\* the format of that entry, whatever the folders, the prefix, the suffix and
\* the default format are.
C11_OverrideVerbatim ==
  \A c \in Calls :
    (Located(c) /\ sampleName[c] \in DOMAIN SAMPLE_URL_TABLE) =>
      /\ sampleDefinition[c].url = SAMPLE_URL_TABLE[sampleName[c]].url
      /\ sampleDefinition[c].format = SAMPLE_URL_TABLE[sampleName[c]].format

\* a name with a "txt" entry, looked up where the default format is "wav" and
\* a folder pattern matches the name
C11_Witness ==
  /\ Located(1) /\ sampleName[1] \in DOMAIN SAMPLE_URL_TABLE
  /\ DEFAULT_SAMPLE_FORMAT = "wav" /\ DEFAULT_SAMPLE_URL_SUFFIX = <<".txt">>
  /\ \E i \in DOMAIN DEFAULT_FOLDER_MAPPINGS :
       Matches(sampleName[1], DEFAULT_FOLDER_MAPPINGS[i].first)
  /\ sampleDefinition[1] = [url |-> <<"https://example.com/file.txt">>, format |-> "txt"]

\* the indices of the mappings whose pattern matches the raw name
MatchingMappings(name) ==
  { i \in DOMAIN DEFAULT_FOLDER_MAPPINGS : Matches(name, DEFAULT_FOLDER_MAPPINGS[i].first) }

\* url is prefix, folder, the percent-encoding of name and suffix, where the
\* encoding keeps the unreserved characters and escapes every other one
DerivedUrl(name, folder, url) ==
  LET encoded == [k \in DOMAIN name |->
                    IF name[k] \in Unreserved THEN name[k] ELSE PercentEscape(name[k])]
  IN url = DEFAULT_SAMPLE_URL_PREFIX \o folder \o encoded \o DEFAULT_SAMPLE_URL_SUFFIX

\* C12: a name without an entry gets the default format and the url made of
\* the prefix, the folder of the first mapping in table order whose pattern
\* matches the raw name (no folder if none matches), the percent-encoded name
\* and the suffix.
C12_DefaultScheme ==
  \A c \in Calls :
    (Located(c) /\ sampleName[c] \notin DOMAIN SAMPLE_URL_TABLE) =>
      LET name == sampleName[c]
          matching == MatchingMappings(name)
          folder == IF matching = {} THEN <<>>
                    ELSE << DEFAULT_FOLDER_MAPPINGS[
                              CHOOSE i \in matching : \A j \in matching : i <= j].folder >>
      IN /\ DerivedUrl(name, folder, sampleDefinition[c].url)
         /\ sampleDefinition[c].format = DEFAULT_SAMPLE_FORMAT

\* "Bd" without an entry, under folders whose patterns overlap: the first
\* matching folder is taken; and "k " has its space escaped
C12_Witness ==
  /\ Located(1) /\ Located(2)
  /\ SAMPLE_URL_TABLE = [n \in {} |-> <<>>]
  /\ Len(DEFAULT_FOLDER_MAPPINGS) = 3 /\ DEFAULT_FOLDER_MAPPINGS[2].folder = "B/"
  /\ sampleName[1] = <<"B", "d">> /\ sampleName[2] = <<"k", " ">>
  /\ sampleDefinition[1].url = DEFAULT_SAMPLE_URL_PREFIX \o <<"AtoK/", "B", "d">>
                                  \o DEFAULT_SAMPLE_URL_SUFFIX
  /\ sampleDefinition[2].url = DEFAULT_SAMPLE_URL_PREFIX \o <<"AtoK/", "k", "%20">>
                                  \o DEFAULT_SAMPLE_URL_SUFFIX

=============================================================================
